---------------------------- MODULE Spec2Model ----------------------------
(***************************************************************************)
(* A model of nim.py: the Nim board (class Nim), the tabular Q-learning    *)
(* agent (class NimAI) and the self-play training loop (train).            *)
(*                                                                         *)
(* Python lists and tuples of piles are sequences; an action (i, j) is the *)
(* pair <<i, j>> with the 0-based pile index i of the source, so that the  *)
(* pile it names is piles[i + 1].  An optional value (None or x) is the    *)
(* empty sequence or <<x>>.                                                *)
(***************************************************************************)
EXTENDS Integers, Sequences, FiniteSets, TLC

VARIABLES
    dflt,     \* the list object bound to the default argument of Nim.__init__
    piles,    \* game.piles
    aliased,  \* whether game.piles is the very list object dflt
    player,   \* game.player
    winner,   \* game.winner: None or Some(p)
    raised,   \* the exception the last call ended with, or NoError
    call,     \* the last call made: its name, arguments and the state before it
    q,        \* player.q: the dictionary from <<state, action>> to Q-value
    alpha,    \* player.alpha
    epsilon,  \* player.epsilon
    n,        \* the argument of train
    i,        \* how many values range(n) has yielded (the source's i + 1)
    pc,       \* where train is: "for", "while", "done" or "raised"
    last,     \* last[p]: the last state and action of player p in this game
    played,   \* the <<state, action>> pairs chosen in this game, in order
    updates,  \* the calls of player.update made in this game, in order
    steps     \* how many moves were made: in all (SpecTrain), in this game
              \* (SpecGames); how many calls were made (SpecAI)

gameVars == <<dflt, piles, aliased, player, winner>>

aiVars == <<q, alpha, epsilon>>

trainVars == <<n, i, pc, last, played, updates>>

vars == <<gameVars, raised, call, aiVars, trainVars, steps>>

-----------------------------------------------------------------------------
(* Values *)

None == << >>

Some(x) == <<x>>

NoError == "none"

GameAlreadyWon == "Game already won"

InvalidPile == "Invalid pile"

InvalidNumber == "Invalid number of objects"

NoActions == "No available actions."

\* tuple(None) in get_q_value
TypeError == "TypeError"

\* Q-values are rationals [n |-> numerator, d |-> denominator], d > 0, in
\* lowest terms.
RECURSIVE GCD(_, _)
GCD(a, b) == IF b = 0 THEN a ELSE GCD(b, a % b)

Abs(x) == IF x < 0 THEN 0 - x ELSE x

Rat(num, den) ==
    LET g == GCD(Abs(num), den)
    IN  [n |-> num \div g, d |-> den \div g]

RInt(k) == [n |-> k, d |-> 1]

RAdd(a, b) == Rat(a.n * b.d + b.n * a.d, a.d * b.d)

RSub(a, b) == Rat(a.n * b.d - b.n * a.d, a.d * b.d)

RMul(a, b) == Rat(a.n * b.n, a.d * b.d)

RLeq(a, b) == a.n * b.d <= b.n * a.d

RLess(a, b) == a.n * b.d < b.n * a.d

RMax(S) == CHOOSE x \in S : \A y \in S : RLeq(y, x)

\* The default board of Nim.__init__.
initial == <<1, 3, 5, 7>>

-----------------------------------------------------------------------------
(* Bounds *)

\* available_actions is applied to boards of at most MaxLen piles ...
MaxLen == 4

\* ... of at most MaxPile items each.
MaxPile == 7

\* train is called with n in 0 .. MaxEpisodes ...
MaxEpisodes == 2

\* ... and followed for MaxMoves moves, all games together, in SpecTrain; to
\* its end in SpecGames.
MaxMoves == 4

\* The agent's methods are called MaxCalls times ...
MaxCalls == 2

\* ... on boards of two piles: one of at most as many items as the first pile
\* of the default board, one of at most MaxPileAI items.
MaxPileAI == 1

\* move is called with pile indexes -Slack .. len(piles) - 1 + Slack and
\* counts -Slack + 1 .. (largest pile) + Slack.
Slack == 1

\* max(S)
Max(S) == CHOOSE x \in S : \A y \in S : y <= x

-----------------------------------------------------------------------------
(* class Nim *)

\* list.copy(): a new list with the same items.
copy(list) == [k \in 1..Len(list) |-> list[k]]

\* Nim.__init__ keeping the list it is given: game.piles is the default list.
Nim_init_no_copy(list) ==
    [piles |-> list, aliased |-> TRUE, player |-> 0, winner |-> None]

\* Nim.__init__(initial=list): the fields of the new game; its piles are a
\* list of their own.
Nim_init(list) ==
    [piles |-> copy(list), aliased |-> FALSE, player |-> 0, winner |-> None]

\* The default list after piles[pile] -= count left game.piles as ps: the
\* same list if game.piles is that object.
default_after(default, is_default, ps) == IF is_default THEN ps ELSE default

RECURSIVE actions_from_short(_, _)
\* actions_from with the inner loop as range(1, pile): it stops one short.
actions_from_short(ps, ix) ==
    IF ix >= Len(ps) THEN {}
    ELSE {<<ix, j>> : j \in 1..(ps[ix + 1] - 1)} \cup actions_from_short(ps, ix + 1)

RECURSIVE actions_from_with_zero(_, _)
\* actions_from with the inner loop as range(0, pile + 1): it offers to take
\* nothing.
actions_from_with_zero(ps, ix) ==
    IF ix >= Len(ps) THEN {}
    ELSE {<<ix, j>> : j \in 0..ps[ix + 1]} \cup actions_from_with_zero(ps, ix + 1)

RECURSIVE actions_from(_, _)
\* The loop of available_actions from the pile at 0-based index ix on.
actions_from(ps, ix) ==
    IF ix >= Len(ps) THEN {}
    ELSE {<<ix, j>> : j \in 1..ps[ix + 1]} \cup actions_from(ps, ix + 1)

available_actions(ps) == actions_from(ps, 0)

other_player(p) == IF p = 1 THEN 0 ELSE 1

switch_player(p) == other_player(p)

\* move_error without the lower bound on the count.
move_error_no_lower(w, ps, action) ==
    LET pile == action[1]
        count == action[2]
    IN  IF w # None THEN GameAlreadyWon
        ELSE IF pile < 0 \/ pile >= Len(ps) THEN InvalidPile
        ELSE IF count > ps[pile + 1] THEN InvalidNumber
        ELSE NoError

\* move_error with the winner looked at last.
move_error_winner_last(w, ps, action) ==
    LET pile == action[1]
        count == action[2]
    IN  IF pile < 0 \/ pile >= Len(ps) THEN InvalidPile
        ELSE IF count < 1 \/ count > ps[pile + 1] THEN InvalidNumber
        ELSE IF w # None THEN GameAlreadyWon
        ELSE NoError

\* The checks at the head of move: the exception raised, or NoError.
move_error(w, ps, action) ==
    LET pile == action[1]
        count == action[2]
    IN  IF w # None THEN GameAlreadyWon
        ELSE IF pile < 0 \/ pile >= Len(ps) THEN InvalidPile
        ELSE IF count < 1 \/ count > ps[pile + 1] THEN InvalidNumber
        ELSE NoError

\* update_pile taking one item whatever the count.
update_pile_one(ps, pile, count) == [ps EXCEPT ![pile + 1] = @ - 1]

\* self.piles[pile] -= count
update_pile(ps, pile, count) == [ps EXCEPT ![pile + 1] = @ - count]

\* all(pile == 0 for pile in self.piles)
all_zero(ps) == \A k \in 1..Len(ps) : ps[k] = 0

\* check_winner with any() for all(): one empty pile ends the game.
check_winner_any(w, ps, p) ==
    IF \E k \in 1..Len(ps) : ps[k] = 0 THEN Some(p) ELSE w

\* check_winner left out: the winner stays what it was.
check_winner_none(w, ps, p) == w

\* The winner check at the end of move, made after the turn switch.
check_winner(w, ps, p) == IF all_zero(ps) THEN Some(p) ELSE w

\* move with the winner check made before the turn switch.
move_check_first(g, action) ==
    LET err == move_error(g.winner, g.piles, action)
    IN  IF err # NoError
        THEN [piles |-> g.piles, player |-> g.player, winner |-> g.winner,
              raised |-> err]
        ELSE LET ps == update_pile(g.piles, action[1], action[2])
             IN  [piles |-> ps, player |-> switch_player(g.player),
                  winner |-> check_winner(g.winner, ps, g.player),
                  raised |-> NoError]

\* move as a function of the game: the game after the call and the exception.
move(g, action) ==
    LET err == move_error(g.winner, g.piles, action)
    IN  IF err # NoError
        THEN [piles |-> g.piles, player |-> g.player, winner |-> g.winner,
              raised |-> err]
        ELSE LET ps == update_pile(g.piles, action[1], action[2])
                 p  == switch_player(g.player)
             IN  [piles |-> ps, player |-> p,
                  winner |-> check_winner(g.winner, ps, p), raised |-> NoError]

game == [piles |-> piles, player |-> player, winner |-> winner]

-----------------------------------------------------------------------------
(* class NimAI *)

\* tuple(state): the tuple of the items of a list or tuple.
tuple(state) == [k \in 1..Len(state) |-> state[k]]

\* dict.get(key, default)
dict_get(d, key, default) == IF key \in DOMAIN d THEN d[key] ELSE default

\* A dictionary rebuilt with the one entry: the others are dropped.
dict_set_only(d, key, value) == [k \in {key} |-> value]

\* d[key] = value
dict_set(d, key, value) ==
    [k \in DOMAIN d \cup {key} |-> IF k = key THEN value ELSE d[k]]

\* NimAI.__init__ with its default arguments.
DefaultAlpha == Rat(1, 2)

DefaultEpsilon == Rat(1, 10)

\* get_q_value with the key's two parts in the other order.
get_q_value_swapped_key(table, state, action) ==
    dict_get(table, <<action, tuple(state)>>, RInt(0))

get_q_value(table, state, action) ==
    dict_get(table, <<tuple(state), action>>, RInt(0))

\* update_q_value stepping away from the new estimate: - alpha for + alpha.
update_q_value_minus(table, state, action, old_q, reward, future_rewards) ==
    dict_set(table, <<tuple(state), action>>,
             RSub(old_q, RMul(alpha, RSub(RAdd(reward, future_rewards), old_q))))

update_q_value(table, state, action, old_q, reward, future_rewards) ==
    LET new_value_estimate == RAdd(reward, future_rewards)
    IN  dict_set(table, <<tuple(state), action>>,
                 RAdd(old_q, RMul(alpha, RSub(new_value_estimate, old_q))))

\* best_future_reward looking only at the pairs the dictionary holds.
best_future_reward_stored(table, state) ==
    LET state_tuple == tuple(state)
        stored == {action \in available_actions(state) :
                      <<state_tuple, action>> \in DOMAIN table}
    IN  IF stored = {} THEN RInt(0)
        ELSE RMax({table[<<state_tuple, action>>] : action \in stored})

best_future_reward(table, state) ==
    LET state_tuple == tuple(state)
        actions == available_actions(state)
    IN  IF actions = {} THEN RInt(0)
        ELSE RMax({dict_get(table, <<state_tuple, action>>, RInt(0)) :
                      action \in actions})

\* update: the table after the call.
update(table, old_state, action, new_state, reward) ==
    LET old == get_q_value(table, old_state, action)
        best_future == best_future_reward(table, new_state)
    IN  update_q_value(table, old_state, action, old, RInt(reward), best_future)

\* choose_action without its check: max() of an empty list raises.
choose_action_error_unchecked(state) ==
    IF available_actions(state) = {} THEN "ValueError" ELSE NoError

\* The exception choose_action raises on this state, or NoError.
choose_action_error(state) ==
    IF available_actions(state) = {} THEN NoActions ELSE NoError

\* choose_action exploring whatever its flag says.
choose_action_ignores_flag(table, state, explore) ==
    LET actions == available_actions(state)
        state_tuple == tuple(state)
        value(a) == dict_get(table, <<state_tuple, a>>, RInt(0))
        highest == RMax({value(a) : a \in actions})
        random_choice == IF RLess(RInt(0), epsilon) THEN actions ELSE {}
        best_action == IF RLeq(RInt(1), epsilon) THEN {}
                       ELSE {a \in actions : value(a) = highest}
    IN  random_choice \cup best_action

\* choose_action exploring with one item of any pile, empty or not.
choose_action_any_pile(table, state, explore) ==
    LET actions == available_actions(state)
        state_tuple == tuple(state)
        value(a) == dict_get(table, <<state_tuple, a>>, RInt(0))
        highest == RMax({value(a) : a \in actions})
        piles_of == {<<k - 1, 1>> : k \in 1..Len(state)}
        random_choice == IF explore /\ RLess(RInt(0), epsilon) THEN piles_of ELSE {}
        best_action == IF explore /\ RLeq(RInt(1), epsilon) THEN {}
                       ELSE {a \in actions : value(a) = highest}
    IN  random_choice \cup best_action

\* The actions choose_action can return on a state that has some: any action
\* when it explores (random.random() < self.epsilon), and otherwise an action
\* of the highest Q-value, the first of them in the order of the list made
\* from the set of actions, an order the language leaves open.
choose_action(table, state, explore) ==
    LET actions == available_actions(state)
        state_tuple == tuple(state)
        value(a) == dict_get(table, <<state_tuple, a>>, RInt(0))
        highest == RMax({value(a) : a \in actions})
        random_choice == IF explore /\ RLess(RInt(0), epsilon) THEN actions ELSE {}
        best_action == IF explore /\ RLeq(RInt(1), epsilon) THEN {}
                       ELSE {a \in actions : value(a) = highest}
    IN  random_choice \cup best_action

\* NimAI(alpha, epsilon)
NimAI_new(a, e) ==
    /\ q = << >>
    /\ alpha = a
    /\ epsilon = e

\* NimAI(): an empty dictionary and the default rates.
NimAI_init ==
    /\ q = << >>
    /\ alpha = DefaultAlpha
    /\ epsilon = DefaultEpsilon

-----------------------------------------------------------------------------
(* train *)

\* The dictionary `last` at the start of a game.
last_init == [p \in {0, 1} |-> [state |-> None, action |-> None]]

\* train has not been called.
NoTraining ==
    /\ n = 0
    /\ i = 0
    /\ pc = "none"
    /\ last = last_init
    /\ played = << >>
    /\ updates = << >>
    /\ steps = 0

\* One call of player.update as the loop records it.
UpdateCall(old_state, action, new_state, reward) ==
    [old_state |-> old_state, action |-> action, new_state |-> new_state,
     reward |-> reward]

\* What one pass of the game loop leaves: the game, `last`, the table, the
\* calls of update it made, the exception that ended it (or NoError) and
\* whether it left the loop.
Pass(g, lst, table, applied, err, brk) ==
    [game |-> g, last |-> lst, q |-> table, applied |-> applied,
     raised |-> err, break |-> brk]

\* game_over without the break: the loop goes on after the two updates.
game_over_no_break(g, lst, table, state, action, new_state) ==
    LET mine == lst[g.player]
        t1 == update(table, state, action, new_state, -1)
        c1 == UpdateCall(state, action, new_state, -1)
    IN  IF mine.state = None
        THEN Pass(g, lst, t1, <<c1>>, TypeError, FALSE)
        ELSE Pass(g, lst,
                  update(t1, mine.state[1], mine.action[1], new_state, 1),
                  <<c1, UpdateCall(mine.state[1], mine.action[1], new_state, 1)>>,
                  NoError, FALSE)

\* game_over with the rewards the other way round: +1 for the move that
\* emptied the board, -1 for the last move of the other player.
game_over_swapped(g, lst, table, state, action, new_state) ==
    LET mine == lst[g.player]
        t1 == update(table, state, action, new_state, 1)
        c1 == UpdateCall(state, action, new_state, 1)
    IN  IF mine.state = None
        THEN Pass(g, lst, t1, <<c1>>, TypeError, FALSE)
        ELSE Pass(g, lst,
                  update(t1, mine.state[1], mine.action[1], new_state, -1),
                  <<c1, UpdateCall(mine.state[1], mine.action[1], new_state, -1)>>,
                  NoError, TRUE)

\* The branch `if game.winner is not None`: g is the game after the move.
game_over(g, lst, table, state, action, new_state) ==
    LET mine == lst[g.player]
        t1 == update(table, state, action, new_state, -1)
        c1 == UpdateCall(state, action, new_state, -1)
    IN  IF mine.state = None
        THEN Pass(g, lst, t1, <<c1>>, TypeError, FALSE)
        ELSE Pass(g, lst,
                  update(t1, mine.state[1], mine.action[1], new_state, 1),
                  <<c1, UpdateCall(mine.state[1], mine.action[1], new_state, 1)>>,
                  NoError, TRUE)

\* game_continues reading the entry of the player who just moved.
game_continues_mover(g, lst, table, new_state) ==
    LET mine == lst[other_player(g.player)]
    IN  IF mine.state # None
        THEN Pass(g, lst,
                  update(table, mine.state[1], mine.action[1], new_state, 0),
                  <<UpdateCall(mine.state[1], mine.action[1], new_state, 0)>>,
                  NoError, FALSE)
        ELSE Pass(g, lst, table, << >>, NoError, FALSE)

\* The branch `elif last[game.player]["state"] is not None`, and the pass
\* that takes neither branch: g is the game after the move.
game_continues(g, lst, table, new_state) ==
    LET mine == lst[g.player]
    IN  IF mine.state # None
        THEN Pass(g, lst,
                  update(table, mine.state[1], mine.action[1], new_state, 0),
                  <<UpdateCall(mine.state[1], mine.action[1], new_state, 0)>>,
                  NoError, FALSE)
        ELSE Pass(g, lst, table, << >>, NoError, FALSE)

\* loop_body with state = game.piles for game.piles.copy(): the state it
\* records is the list the move changes.
loop_body_no_copy(g, lst, table, state, action) ==
    LET r == move(g, action)
        new_state == copy(r.piles)
        lst1 == [lst EXCEPT ![g.player] =
                     [state |-> Some(r.piles), action |-> Some(action)]]
        g1 == [piles |-> r.piles, player |-> r.player, winner |-> r.winner]
    IN  IF r.raised # NoError THEN Pass(g1, lst1, table, << >>, r.raised, FALSE)
        ELSE IF r.winner # None
        THEN game_over(g1, lst1, table, r.piles, action, new_state)
        ELSE game_continues(g1, lst1, table, new_state)

\* The rest of one pass of the game loop once `action` is chosen on `state`.
loop_body(g, lst, table, state, action) ==
    LET lst1 == [lst EXCEPT ![g.player] =
                     [state |-> Some(state), action |-> Some(action)]]
        r == move(g, action)
        new_state == copy(r.piles)
        g1 == [piles |-> r.piles, player |-> r.player, winner |-> r.winner]
    IN  IF r.raised # NoError THEN Pass(g1, lst1, table, << >>, r.raised, FALSE)
        ELSE IF r.winner # None
        THEN game_over(g1, lst1, table, state, action, new_state)
        ELSE game_continues(g1, lst1, table, new_state)

-----------------------------------------------------------------------------
(* Spec: one game, Nim(), driven by arbitrary calls of move *)

PileIndexes == (0 - Slack)..(Len(initial) - 1 + Slack)

Counts == (1 - Slack)..(Max({initial[k] : k \in 1..Len(initial)}) + Slack)

Init ==
    /\ dflt = initial
    /\ piles = Nim_init(dflt).piles
    /\ aliased = Nim_init(dflt).aliased
    /\ player = Nim_init(dflt).player
    /\ winner = Nim_init(dflt).winner
    /\ raised = NoError
    /\ call = [op |-> "Nim"]
    /\ NimAI_init
    /\ NoTraining

Move(action) ==
    LET r == move(game, action)
    IN  /\ piles' = r.piles
        /\ player' = r.player
        /\ winner' = r.winner
        /\ raised' = r.raised
        /\ call' = [op |-> "move", action |-> action, pre |-> game]
        /\ dflt' = default_after(dflt, aliased, r.piles)
        /\ UNCHANGED <<aliased, aiVars, trainVars, steps>>

Next == \E ix \in PileIndexes, j \in Counts : Move(<<ix, j>>)

Spec == Init /\ [][Next]_vars

-----------------------------------------------------------------------------
(* SpecActions: available_actions applied to arbitrary boards *)

RECURSIVE SeqsUpTo(_, _)
SeqsUpTo(S, len) ==
    IF len = 0 THEN {<< >>}
    ELSE LET shorter == SeqsUpTo(S, len - 1)
         IN  shorter \cup {Append(s, x) : s \in {t \in shorter : Len(t) = len - 1}, x \in S}

PileConfigs == SeqsUpTo(0..MaxPile, MaxLen)

InitActions ==
    /\ dflt = initial
    /\ piles = Nim_init(dflt).piles
    /\ aliased = Nim_init(dflt).aliased
    /\ player = Nim_init(dflt).player
    /\ winner = Nim_init(dflt).winner
    /\ raised = NoError
    /\ \E ps \in PileConfigs : call = [op |-> "pending", piles |-> ps]
    /\ NimAI_init
    /\ NoTraining

\* One call of Nim.available_actions on the board drawn initially.
AvailableActions ==
    /\ call.op = "pending"
    /\ call' = [op |-> "available_actions", piles |-> call.piles,
                result |-> available_actions(call.piles)]
    /\ raised' = NoError
    /\ UNCHANGED <<gameVars, aiVars, trainVars, steps>>

NextActions == AvailableActions

SpecActions == InitActions /\ [][NextActions]_vars

-----------------------------------------------------------------------------
(* SpecTrain: train(n) for n up to MaxEpisodes, cut after MaxMoves moves *)

InitTrain ==
    /\ dflt = initial
    /\ piles = << >>
    /\ aliased = FALSE
    /\ player = 0
    /\ winner = None
    /\ raised = NoError
    /\ call = [op |-> "train"]
    /\ NimAI_init
    /\ n \in 0..MaxEpisodes
    /\ i = 0
    /\ pc = "for"
    /\ last = last_init
    /\ played = << >>
    /\ updates = << >>
    /\ steps = 0

\* for i in range(n): game = Nim(); last = {...}
StartGame ==
    /\ pc = "for"
    /\ i < n
    /\ i' = i + 1
    /\ piles' = Nim_init(dflt).piles
    /\ aliased' = Nim_init(dflt).aliased
    /\ player' = Nim_init(dflt).player
    /\ winner' = Nim_init(dflt).winner
    /\ last' = last_init
    /\ played' = << >>
    /\ updates' = << >>
    /\ pc' = "while"
    /\ call' = [op |-> "Nim", q |-> q]
    /\ UNCHANGED <<dflt, raised, aiVars, n, steps>>

\* One pass of the game loop: choose, record, move, update.
GameLoop ==
    /\ pc = "while"
    /\ steps < MaxMoves
    /\ LET state == copy(piles)
       IN  IF choose_action_error(piles) # NoError
           THEN /\ raised' = choose_action_error(piles)
                /\ pc' = "raised"
                /\ call' = [op |-> "loop", state |-> state, pre |-> game]
                /\ UNCHANGED <<gameVars, aiVars, n, i, last, played, updates, steps>>
           ELSE \E action \in choose_action(q, piles, TRUE) :
                  \E r \in {loop_body(game, last, q, state, action)} :
                      /\ piles' = r.game.piles
                      /\ player' = r.game.player
                      /\ winner' = r.game.winner
                      /\ last' = r.last
                      /\ q' = r.q
                      /\ raised' = r.raised
                      /\ played' = Append(played, <<state, action>>)
                      /\ updates' = updates \o r.applied
                      /\ steps' = steps + 1
                      /\ pc' = IF r.raised # NoError THEN "raised"
                               ELSE IF r.break THEN "for" ELSE "while"
                      /\ call' = [op |-> "loop", state |-> state, action |-> action,
                                  pre |-> game, last |-> last, q |-> q,
                                  applied |-> r.applied]
                      /\ dflt' = default_after(dflt, aliased, r.game.piles)
                      /\ UNCHANGED <<aliased, alpha, epsilon, n, i>>

\* print("Done training"); return player
Done ==
    /\ pc = "for"
    /\ i >= n
    /\ pc' = "done"
    /\ call' = [op |-> "return"]
    /\ UNCHANGED <<gameVars, raised, aiVars, n, i, last, played, updates, steps>>

NextTrain == StartGame \/ GameLoop \/ Done

SpecTrain == InitTrain /\ [][NextTrain]_vars

-----------------------------------------------------------------------------
(* SpecGames: the games of train(n) played to their end.  The table is not *)
(* followed: q stays the empty table of NimAI().  With epsilon = 0.1 the   *)
(* choice choose_action(state) makes is any available action whatever the  *)
(* table holds, and the game, `last`, the exception and the break of a     *)
(* pass do not depend on the table.                                        *)

\* for i in range(n): game = Nim(); last = {...}
StartEpisode ==
    /\ pc = "for"
    /\ i < n
    /\ i' = i + 1
    /\ piles' = Nim_init(dflt).piles
    /\ aliased' = Nim_init(dflt).aliased
    /\ player' = Nim_init(dflt).player
    /\ winner' = Nim_init(dflt).winner
    /\ last' = last_init
    /\ steps' = 0
    /\ pc' = "while"
    /\ call' = [op |-> "Nim"]
    /\ UNCHANGED <<dflt, raised, aiVars, n, played, updates>>

\* One pass of the game loop: choose, record, move; the updates are left out.
PlayMove ==
    /\ pc = "while"
    /\ LET state == copy(piles)
       IN  IF choose_action_error(piles) # NoError
           THEN /\ raised' = choose_action_error(piles)
                /\ pc' = "raised"
                /\ call' = [op |-> "loop", state |-> state, pre |-> game]
                /\ UNCHANGED <<gameVars, aiVars, n, i, last, played, updates, steps>>
           ELSE \E action \in choose_action(q, piles, TRUE) :
                  \E r \in {loop_body(game, last, q, state, action)} :
                      /\ piles' = r.game.piles
                      /\ player' = r.game.player
                      /\ winner' = r.game.winner
                      /\ last' = r.last
                      /\ raised' = r.raised
                      /\ steps' = steps + 1
                      /\ pc' = IF r.raised # NoError THEN "raised"
                               ELSE IF r.break THEN "for" ELSE "while"
                      /\ call' = [op |-> "loop", state |-> state, action |-> action,
                                  pre |-> game]
                      /\ dflt' = default_after(dflt, aliased, r.game.piles)
                      /\ UNCHANGED <<aliased, aiVars, n, i, played, updates>>

NextGames == StartEpisode \/ PlayMove \/ Done

SpecGames == InitTrain /\ [][NextGames]_vars

-----------------------------------------------------------------------------
(* SpecAI: one agent, NimAI(alpha, epsilon), driven by arbitrary calls of  *)
(* update, get_q_value, best_future_reward and choose_action               *)

StatesAI == (0..initial[1]) \X (0..MaxPileAI)

\* The rewards train passes to update.
Rewards == {-1, 0, 1}

\* The pairs the lookups are made with, available on the state or not.
ActionsAI == (0..1) \X (1..MaxPileAI)

\* The exploration rates the agent is made with: none, and the default.
EpsilonsAI == {RInt(0), DefaultEpsilon}

InitAI ==
    /\ dflt = initial
    /\ piles = << >>
    /\ aliased = FALSE
    /\ player = 0
    /\ winner = None
    /\ raised = NoError
    /\ call = [op |-> "NimAI"]
    /\ \E e \in EpsilonsAI : NimAI_new(DefaultAlpha, e)
    /\ NoTraining

Update(old_state, action, new_state, reward) ==
    /\ steps < MaxCalls
    /\ q' = update(q, old_state, action, new_state, reward)
    /\ call' = [op |-> "update", old_state |-> old_state, action |-> action,
                new_state |-> new_state, reward |-> reward, q |-> q]
    /\ raised' = NoError
    /\ steps' = steps + 1
    /\ UNCHANGED <<gameVars, alpha, epsilon, trainVars>>

\* The lookup before this one, if the call before was a lookup.
PreviousLookup ==
    IF call.op = "get_q_value"
    THEN Some([state |-> call.state, action |-> call.action, result |-> call.result])
    ELSE None

GetQValue(state, action) ==
    /\ steps < MaxCalls
    /\ call' = [op |-> "get_q_value", state |-> state, action |-> action,
                result |-> get_q_value(q, state, action), q |-> q,
                previous |-> PreviousLookup]
    /\ raised' = NoError
    /\ steps' = steps + 1
    /\ UNCHANGED <<gameVars, aiVars, trainVars>>

BestFutureReward(state) ==
    /\ steps < MaxCalls
    /\ call' = [op |-> "best_future_reward", state |-> state,
                result |-> best_future_reward(q, state), q |-> q]
    /\ raised' = NoError
    /\ steps' = steps + 1
    /\ UNCHANGED <<gameVars, aiVars, trainVars>>

\* choose_action(state, epsilon=explore): `possible` is what it can return.
ChooseAction(state, explore) ==
    /\ steps < MaxCalls
    /\ steps' = steps + 1
    /\ UNCHANGED <<gameVars, aiVars, trainVars>>
    /\ IF choose_action_error(state) # NoError
       THEN /\ raised' = choose_action_error(state)
            /\ call' = [op |-> "choose_action", state |-> state, explore |-> explore,
                        result |-> None, possible |-> {}, q |-> q]
       ELSE /\ raised' = NoError
            /\ \E action \in choose_action(q, state, explore) :
                  call' = [op |-> "choose_action", state |-> state,
                           explore |-> explore, result |-> Some(action),
                           possible |-> choose_action(q, state, explore), q |-> q]

NextAI ==
    \/ \E old_state \in StatesAI, new_state \in StatesAI, reward \in Rewards :
          \E action \in available_actions(old_state) :
              Update(old_state, action, new_state, reward)
    \/ \E state \in StatesAI, action \in ActionsAI : GetQValue(state, action)
    \/ \E state \in StatesAI : BestFutureReward(state)
    \/ \E state \in StatesAI, explore \in BOOLEAN : ChooseAction(state, explore)

SpecAI == InitAI /\ [][NextAI]_vars

-----------------------------------------------------------------------------
(* Properties of class Nim *)

\* The last call was move, made on a game without a winner.
MoveOnOpenGame == call.op = "move" /\ call.pre.winner = None

\* The action of the last call of move was legal on the board before it.
LegalAction ==
    /\ 0 <= call.action[1]
    /\ call.action[1] < Len(call.pre.piles)
    /\ 1 <= call.action[2]
    /\ call.action[2] <= call.pre.piles[call.action[1] + 1]

SameGame ==
    /\ piles = call.pre.piles
    /\ player = call.pre.player
    /\ winner = call.pre.winner

\* C1: on a game without a winner, move((i, j)) with 0 <= i < len(piles) and
\* 1 <= j <= piles[i] succeeds, takes exactly j items from pile i, leaves the
\* other piles and the number of piles as they were, and flips the player
\* (0 -> 1, 1 -> 0).
C1_MoveEffect ==
    (MoveOnOpenGame /\ LegalAction) =>
        /\ raised = NoError
        /\ Len(piles) = Len(call.pre.piles)
        /\ \A k \in 1..Len(piles) :
              piles[k] = IF k = call.action[1] + 1
                         THEN call.pre.piles[k] - call.action[2]
                         ELSE call.pre.piles[k]
        /\ \/ call.pre.player = 0 /\ player = 1
           \/ call.pre.player = 1 /\ player = 0

\* A legal move that took several items from a pile and left some in it.
C1_Witness ==
    /\ MoveOnOpenGame /\ LegalAction
    /\ call.action[2] >= 2
    /\ piles[call.action[1] + 1] >= 1
    /\ call.pre.player = 1

\* C2: a successful move sets the winner iff every pile is zero after the
\* decrement, and the winner it sets is the active player after the switch.
C2_WinnerIffEmpty ==
    (call.op = "move" /\ raised = NoError) =>
        /\ (winner # None) <=> (\A k \in 1..Len(piles) : piles[k] = 0)
        /\ winner # None => winner = Some(player)

\* A successful move that set the winner.
C2_Witness ==
    /\ call.op = "move" /\ raised = NoError
    /\ call.pre.winner = None
    /\ winner # None

\* C3 as stated: when a move empties the board, the winner is the player
\* who made that move.
C3_MoverWins ==
    (call.op = "move" /\ raised = NoError /\ winner # None) =>
        winner = Some(call.pre.player)

\* C3, amended: when a move empties the board, the winner is the opponent of
\* the player who made that move (who takes the last object loses).
C3_MoverLoses ==
    (call.op = "move" /\ raised = NoError /\ winner # None) =>
        /\ winner # Some(call.pre.player)
        /\ winner \in {Some(0), Some(1)}

\* Player 0 took the last object and player 1 is the winner.
C3_Witness ==
    /\ call.op = "move" /\ raised = NoError
    /\ call.pre.player = 0
    /\ call.pre.piles # piles
    /\ winner = Some(1)

\* C4: on a game without a winner, move((i, j)) with i < 0, i >= len(piles),
\* j < 1 or j > piles[i] raises an error and leaves piles, player and winner
\* as they were.
C4_InvalidMoveRejected ==
    (MoveOnOpenGame /\ ~LegalAction) =>
        /\ raised \in {InvalidPile, InvalidNumber}
        /\ SameGame

\* In the middle of a game, a call with a count below 1 was rejected.
C4_Witness ==
    /\ MoveOnOpenGame /\ ~LegalAction
    /\ raised = InvalidNumber
    /\ call.action[2] < 1
    /\ call.pre.piles # initial

\* C5: once the winner is set, every call of move, whatever its action, raises
\* "Game already won" and leaves piles, player and winner as they were.
C5_NoMoveAfterWin ==
    (call.op = "move" /\ call.pre.winner # None) =>
        /\ raised = GameAlreadyWon
        /\ SameGame
        /\ winner # None

\* A call of move on a finished game, with an in-range pile and a positive count.
C5_Witness ==
    /\ call.op = "move" /\ call.pre.winner # None
    /\ call.action[1] \in 0..(Len(piles) - 1)
    /\ call.action[2] >= 1
    /\ raised = GameAlreadyWon

\* C6: available_actions(piles) is exactly {(i, j) : 0 <= i < len(piles),
\* 1 <= j <= piles[i]}; it is empty iff all piles are zero; for [1, 3, 5, 7]
\* it has 16 elements.
C6_AvailableActions ==
    call.op = "available_actions" =>
        /\ call.result = {a \in (0..(Len(call.piles) - 1)) \X (1..MaxPile) :
                              a[2] <= call.piles[a[1] + 1]}
        /\ (call.result = {}) <=> (\A k \in 1..Len(call.piles) : call.piles[k] = 0)
        /\ call.piles = <<1, 3, 5, 7>> => Cardinality(call.result) = 16

\* available_actions was applied to [1, 3, 5, 7] and returned 16 actions.
C6_Witness ==
    /\ call.op = "available_actions"
    /\ call.piles = <<1, 3, 5, 7>>
    /\ Cardinality(call.result) = 16

-----------------------------------------------------------------------------
(* Properties of train *)

\* The last step was a pass of the game loop that made a move.
Moved == call.op = "loop" /\ "action" \in DOMAIN call /\ raised = NoError

\* C7: when a training move produces a winner, exactly two updates are
\* applied: update(state, action, new_state, -1) for the move that ended the
\* game, then update(state and action of the other player's previous move,
\* new_state, +1), with new_state the all-zero board; then the game is left:
\* no move and no update follows in it.
C7_TwoUpdatesAtEnd ==
    /\ (Moved /\ winner # None) =>
          /\ Len(played) >= 2
          /\ call.applied =
                <<UpdateCall(call.state, call.action, piles, -1),
                  UpdateCall(played[Len(played) - 1][1],
                             played[Len(played) - 1][2], piles, 1)>>
          /\ last[player] = [state |-> Some(played[Len(played) - 1][1]),
                             action |-> Some(played[Len(played) - 1][2])]
          /\ \A k \in 1..Len(piles) : piles[k] = 0
    /\ winner # None =>
          /\ pc \in {"for", "done"}
          /\ SubSeq(updates, Len(updates) - 1, Len(updates)) =
                <<UpdateCall(played[Len(played)][1], played[Len(played)][2],
                             piles, -1),
                  UpdateCall(played[Len(played) - 1][1],
                             played[Len(played) - 1][2], piles, 1)>>

\* A pass of the loop ended a game and applied two updates.
C7_Witness ==
    /\ Moved /\ winner # None
    /\ Len(call.applied) = 2
    /\ pc = "for"

\* C8 as stated: when the active player takes the last item, the winner is
\* that player, the pair of that move receives reward +1 and the last move of
\* the other player receives reward -1.
C8_MoverRewarded ==
    (Moved /\ winner # None) =>
        /\ winner = Some(call.pre.player)
        /\ \E k \in 1..Len(call.applied) :
              /\ call.applied[k].old_state = call.state
              /\ call.applied[k].action = call.action
              /\ call.applied[k].reward = 1
        /\ \E k \in 1..Len(call.applied) :
              /\ Some(call.applied[k].old_state) = last[1 - call.pre.player].state
              /\ Some(call.applied[k].action) = last[1 - call.pre.player].action
              /\ call.applied[k].reward = -1

\* C8, amended: when the active player takes the last item, the winner is
\* the other player, the pair of that move receives reward -1 and only -1,
\* and the last move of the other player, the winner, receives reward +1
\* and only +1.
C8_MoverPenalised ==
    (Moved /\ winner # None) =>
        /\ winner = Some(1 - call.pre.player)
        /\ \E k \in 1..Len(call.applied) :
              /\ call.applied[k].old_state = call.state
              /\ call.applied[k].action = call.action
        /\ \E k \in 1..Len(call.applied) :
              /\ Some(call.applied[k].old_state) = last[1 - call.pre.player].state
              /\ Some(call.applied[k].action) = last[1 - call.pre.player].action
        /\ \A k \in 1..Len(call.applied) :
              /\ (call.applied[k].old_state = call.state /\ call.applied[k].action = call.action)
                    => call.applied[k].reward = -1
              /\ (/\ Some(call.applied[k].old_state) = last[1 - call.pre.player].state
                  /\ Some(call.applied[k].action) = last[1 - call.pre.player].action)
                    => call.applied[k].reward = 1

\* Player 1 took all the items of the only pile left: player 0 is the winner.
C8_Witness ==
    /\ Moved /\ winner = Some(0)
    /\ call.pre.player = 1
    /\ Cardinality({k \in 1..Len(call.state) : call.state[k] # 0}) = 1
    /\ call.action \in available_actions(call.state)

\* C9: after a training move that does not end the game, an update of reward
\* 0 is applied iff the new active player already had a recorded pair in this
\* game, and it is update(that state, that action, the piles after the move,
\* 0); so the first move of a game triggers no update and every later move
\* that does not end it triggers exactly one.
C9_ZeroRewardUpdate ==
    (call.op = "loop" /\ winner = None) =>
        /\ raised = NoError
        /\ (call.applied # << >>) <=> (call.last[player].state # None)
        /\ call.applied # << >> =>
              call.applied = <<UpdateCall(call.last[player].state[1],
                                          call.last[player].action[1], piles, 0)>>
        /\ Len(played) = 1 => call.applied = << >>
        /\ Len(played) > 1 =>
              /\ Len(call.applied) = 1
              /\ call.applied[1].old_state = played[Len(played) - 1][1]
              /\ call.applied[1].action = played[Len(played) - 1][2]

\* The third move of a game did not end it and triggered one update.
C9_Witness ==
    /\ Moved /\ winner = None
    /\ Len(played) = 3
    /\ Len(call.applied) = 1
    /\ call.applied[1].reward = 0

-----------------------------------------------------------------------------
(* Properties of class NimAI *)

\* The entry of <<state, action>> in a dictionary, 0 if it has none.
Entry(table, state, action) ==
    IF <<state, action>> \in DOMAIN table THEN table[<<state, action>>] ELSE RInt(0)

\* The actions a board offers.
Offered(state) ==
    {a \in (0..(Len(state) - 1)) \X (1..MaxPileAI) : a[2] <= state[a[1] + 1]}

\* What the learning rule makes of the entry `old`, a reward and best_future.
Learned(old, reward, best_future) ==
    RAdd(old, RMul(alpha, RSub(RAdd(RInt(reward), best_future), old)))

\* C10: update(old_state, action, new_state, reward) sets the entry of
\* (old_state, action) to old + alpha * (reward + best_future - old), old
\* being the entry before the call (0 if absent) and best_future the highest
\* entry, absent ones counting 0, of the actions available in new_state, or
\* 0 when new_state has none.
C10_UpdateRule ==
    call.op = "update" =>
        LET old == Entry(call.q, call.old_state, call.action)
            new == Entry(q, call.old_state, call.action)
            offered == Offered(call.new_state)
        IN  /\ <<call.old_state, call.action>> \in DOMAIN q
            /\ \/ offered = {} /\ new = Learned(old, call.reward, RInt(0))
               \/ \E a \in offered :
                     /\ \A b \in offered :
                           RLeq(Entry(call.q, call.new_state, b),
                                Entry(call.q, call.new_state, a))
                     /\ new = Learned(old, call.reward,
                                      Entry(call.q, call.new_state, a))

\* update was called on a pair that had a non-zero entry, with a new state
\* that has one negative entry and one absent entry.
C10_Witness ==
    /\ call.op = "update"
    /\ Entry(call.q, call.old_state, call.action) # RInt(0)
    /\ Cardinality(Offered(call.new_state)) = 2
    /\ \E a \in Offered(call.new_state) :
          RLess(Entry(call.q, call.new_state, a), RInt(0))
    /\ \E a \in Offered(call.new_state) :
          <<call.new_state, a>> \notin DOMAIN call.q

\* The last call was choose_action on a state that offers actions.
Chose == call.op = "choose_action" /\ Offered(call.state) # {}

\* The actions of the highest entry among those a state offers.
Maximizers(table, state) ==
    {a \in Offered(state) :
        \A b \in Offered(state) : RLeq(Entry(table, state, b), Entry(table, state, a))}

\* C11: on a state with at least one available action, choose_action with
\* explore = false, and with explore = true when epsilon = 0, returns an
\* available action whose entry (0 if absent) is the highest of all available
\* actions; so with one entry above 0 and the others absent it returns the
\* action of that entry.
C11_GreedyChoice ==
    (Chose /\ (~call.explore \/ epsilon = RInt(0))) =>
        /\ raised = NoError
        /\ call.result # None
        /\ call.result[1] \in Offered(call.state)
        /\ \A b \in Offered(call.state) :
              RLeq(Entry(call.q, call.state, b),
                   Entry(call.q, call.state, call.result[1]))

\* With epsilon = 0 and explore = true, the state offers two actions, one of
\* a positive entry and one without an entry: the first is returned.
C11_Witness ==
    /\ Chose /\ call.explore /\ epsilon = RInt(0)
    /\ Cardinality(Offered(call.state)) = 2
    /\ RLess(RInt(0), Entry(call.q, call.state, call.result[1]))
    /\ \E b \in Offered(call.state) : <<call.state, b>> \notin DOMAIN call.q

\* C12: on a state with no available action choose_action raises "No
\* available actions.", for explore true and false and whatever epsilon is,
\* returns no action and leaves the Q-table as it was.
C12_NoActionsError ==
    (call.op = "choose_action" /\ Offered(call.state) = {}) =>
        /\ raised = NoActions
        /\ call.result = None
        /\ q = call.q

\* choose_action raised on the empty board of an agent that has learnt
\* something, exploring.
C12_Witness ==
    /\ call.op = "choose_action" /\ Offered(call.state) = {}
    /\ call.explore
    /\ RLess(RInt(0), epsilon)
    /\ q # << >>
    /\ raised = NoActions

\* C13: a lookup on an empty table returns 0 for every key; after a value is
\* stored for (s, a) the lookup of (s, a) returns it and the lookup of every
\* other key returns what it returned before the store; two lookups of a key
\* with no store in between return the same value.
C13_LookupAndStore ==
    /\ call.op = "get_q_value" =>
          /\ call.q = << >> => call.result = RInt(0)
          /\ call.result = Entry(call.q, call.state, call.action)
          /\ (/\ call.previous # None
              /\ call.previous[1].state = call.state
              /\ call.previous[1].action = call.action)
                => call.result = call.previous[1].result
    /\ call.op = "update" =>
          /\ <<call.old_state, call.action>> \in DOMAIN q
          /\ get_q_value(q, call.old_state, call.action) =
                q[<<call.old_state, call.action>>]
          /\ \A s \in StatesAI, a \in ActionsAI :
                <<s, a>> # <<call.old_state, call.action>> =>
                    get_q_value(q, s, a) = get_q_value(call.q, s, a)

\* A lookup returned the non-zero value stored by the update before it.
C13_Witness ==
    /\ call.op = "get_q_value"
    /\ call.result # RInt(0)
    /\ call.result = q[<<call.state, call.action>>]
    /\ Cardinality(DOMAIN q) = 1

\* C14: choose_action, get_q_value and best_future_reward leave the Q-table
\* as it was; a call of update changes the entry of (old_state, action) and
\* no other; no entry is ever removed, so the set of keys only grows.
C14_TableFrame ==
    /\ call.op \in {"choose_action", "get_q_value", "best_future_reward"} =>
          q = call.q
    /\ call.op = "update" =>
          /\ DOMAIN q = DOMAIN call.q \cup {<<call.old_state, call.action>>}
          /\ \A k \in DOMAIN call.q :
                k # <<call.old_state, call.action>> => q[k] = call.q[k]
    /\ "q" \in DOMAIN call => DOMAIN call.q \subseteq DOMAIN q

\* update added an entry to a table that held another one.
C14_Witness ==
    /\ call.op = "update"
    /\ call.q # << >>
    /\ <<call.old_state, call.action>> \notin DOMAIN call.q
    /\ Cardinality(DOMAIN q) = 2

\* C17: on a state with at least one available action, choose_action with
\* explore = true returns an available action: any of them when epsilon > 0,
\* one of the highest entry when epsilon = 0; move accepts it on that state.
C17_ExploreChoice ==
    (Chose /\ call.explore) =>
        /\ call.result # None
        /\ call.result[1] \in call.possible
        /\ call.result[1] \in Offered(call.state)
        /\ RLess(RInt(0), epsilon) => call.possible = Offered(call.state)
        /\ epsilon = RInt(0) => call.possible = Maximizers(call.q, call.state)
        /\ move([piles |-> call.state, player |-> 0, winner |-> None],
                call.result[1]).raised = NoError

\* Exploring, choose_action returned an action of a lower entry than another.
C17_Witness ==
    /\ Chose /\ call.explore
    /\ RLess(RInt(0), epsilon)
    /\ \E b \in Offered(call.state) :
          RLess(Entry(call.q, call.state, call.result[1]),
                Entry(call.q, call.state, b))

RECURSIVE SumFrom(_, _)
SumFrom(ps, k) == IF k > Len(ps) THEN 0 ELSE ps[k] + SumFrom(ps, k + 1)

\* How many items a board holds.
Items(ps) == SumFrom(ps, 1)

\* C15: every game of train(n) starts from a fresh board [1, 3, 5, 7] with
\* player 0 to move, no winner and both entries of `last` absent, whatever
\* the earlier games did: no move alters the default starting list, and the
\* Q-table alone is carried from one game to the next.
C15_FreshGame ==
    /\ dflt = initial
    /\ call.op = "Nim" =>
          /\ piles = initial
          /\ ~aliased
          /\ player = 0
          /\ winner = None
          /\ last = last_init
          /\ q = call.q

\* The second game starts after a first game that was played to its end and
\* left entries in the table.
C15_Witness ==
    /\ call.op = "Nim"
    /\ i = MaxEpisodes
    /\ q # << >>
    /\ piles = initial

\* What is left of train at most: the games not started, each of a pass per
\* item and the steps around them, and the passes left of the game under way.
Rank ==
    (n - i) * (Items(initial) + 3)
        + (IF pc = "for" THEN 1 ELSE IF pc = "while" THEN Items(piles) + 2 ELSE 0)

\* What C16 says of each state: a move leaves fewer items than it found, the
\* loop runs only while there is no winner and then has an action to choose,
\* a winner is set after no fewer moves than there are piles and no more than
\* there are items, no pass ends in an exception, and train returns after n
\* games.
GamesBounded ==
    /\ (call.op = "loop" /\ "action" \in DOMAIN call) =>
          Items(piles) < Items(call.pre.piles)
    /\ pc = "while" => winner = None /\ choose_action_error(piles) = NoError
    /\ winner # None =>
          /\ all_zero(piles)
          /\ steps >= Len(initial)
          /\ steps <= Items(initial)
    /\ pc # "raised"
    /\ i <= n
    /\ pc = "done" => i = n
    /\ Rank >= 0

\* C16: every game of train ends: each move lowers the number of items left,
\* so from [1, 3, 5, 7] a winner is set after at least 4 and at most 16
\* moves, and train(n) returns after exactly n games whatever actions are
\* chosen: every step of train lowers Rank, which is never below 0, and a
\* step can be taken wherever train has not returned.
C16_EpisodesEnd ==
    /\ []GamesBounded
    /\ [][Rank' < Rank]_vars

\* train returned after MaxEpisodes games, the last of them of one item a move.
C16_Witness ==
    /\ pc = "done"
    /\ n = MaxEpisodes
    /\ i = n
    /\ winner # None
    /\ steps = Items(initial)

\* C18: no step of train raises: choose_action is called on boards that offer
\* an action, move is called with an action the board offers on a game
\* without a winner, and when a move ends the game the player then to move
\* has a state and an action recorded in `last`.
C18_NoStepRaises ==
    /\ raised = NoError
    /\ pc # "raised"
    /\ call.op = "loop" =>
          /\ "action" \in DOMAIN call
          /\ call.pre.winner = None
          /\ choose_action_error(call.pre.piles) = NoError
          /\ call.action \in available_actions(call.pre.piles)
          /\ move_error(call.pre.winner, call.pre.piles, call.action) = NoError
          /\ winner # None =>
                /\ last[player].state # None
                /\ last[player].action # None

\* A game ended at its fourth move, the first player's third: the last pair
\* of the player then to move is on record.
C18_Witness ==
    /\ call.op = "loop"
    /\ winner # None
    /\ steps = Len(initial)
    /\ last[player].state # None
    /\ raised = NoError

\* The piles after the k-th move of this game.
After(k) == IF k < Len(played) THEN played[k + 1][1] ELSE copy(piles)

\* C19: a game of m moves makes m calls of update.  The pair of move k < m
\* is updated in the pass of move k + 1, with the piles before move k as
\* old_state and those after move k + 1 as new_state, and reward 0 if move
\* k + 1 is not the last, +1 if it is; the pair of the last move is updated
\* with reward -1.
C19_UpdatesOfMoves ==
    LET m == Len(played)
        ended == winner # None
        last_but_one(k) == ended /\ k = m - 1
    IN  pc \in {"while", "for", "done"} =>
          /\ Len(updates) = IF ended THEN m ELSE IF m = 0 THEN 0 ELSE m - 1
          /\ \A k \in 1..(m - 1) :
                updates[IF last_but_one(k) THEN m ELSE k] =
                    UpdateCall(played[k][1], played[k][2], After(k + 1),
                               IF last_but_one(k) THEN 1 ELSE 0)
          /\ (ended /\ m > 0) =>
                updates[m - 1] =
                    UpdateCall(played[m][1], played[m][2], After(m), -1)
          /\ Moved =>
                Len(call.applied) = IF ended THEN 2 ELSE IF m = 1 THEN 0 ELSE 1

\* A game of four moves ended: four updates, of rewards 0, 0, -1, +1.
C19_Witness ==
    /\ Moved
    /\ winner # None
    /\ Len(played) = Len(initial)
    /\ Len(updates) = Len(played)
    /\ updates[1].reward = 0
    /\ updates[Len(updates)].reward = 1

\* The action empties the board it is taken on.
Empties(state, action) ==
    /\ move_error(None, state, action) = NoError
    /\ all_zero(update_pile(state, action[1], action[2]))

=============================================================================
